---- MODULE Spec2Model ----
(***************************************************************************)
(* Model of rael_img::load_image (src/src/lib.rs).                         *)
(*                                                                         *)
(* One call of load_image is a linear pipeline:                            *)
(*   image::open  ->  target size  ->  fast path / resize_exact / resize   *)
(*                ->  flatten final_img.pixels() into the Vec              *)
(* The arguments of the call and the file behind `path` are drawn in Init. *)
(*                                                                         *)
(* u32 values that can come near u32::MAX (position and the emitted        *)
(* coordinates) are kept at their true width as two 16-bit limbs           *)
(* <<hi, lo>>; everything else is small and kept as a plain integer.       *)
(* `scale` is a dyadic rational <<num, den>>, for which the f32 product    *)
(* with a small integer is exact.                                          *)
(***************************************************************************)
EXTENDS Integers, Sequences, FiniteSets, TLC

\* Native image sides and explicit width/height arguments range over 1..MaxDim.
MaxDim == 3

\* ------------------------------------------------------------------------
\* Option<u32>
\* ------------------------------------------------------------------------
None == <<>>

Some(v) == <<v>>

is_some(o) == o # None

unwrap_or(o, d) == IF is_some(o) THEN o[1] ELSE d

\* ------------------------------------------------------------------------
\* u32 at full width, as limbs <<hi, lo>> of 16 bits each
\* ------------------------------------------------------------------------
Limb == 2 ^ 16

U32(n) == <<n \div Limb, n % Limb>>

U32Max == <<Limb - 1, Limb - 1>>

\* x + y on u32 without overflow checks (release profile): wraps modulo 2^32.
wrapping_add(a, b) ==
    LET lo == a[2] + b[2]
        hi == a[1] + b[1] + (lo \div Limb)
    IN  <<hi % Limb, lo % Limb>>

\* x + y overflows u32 (panics when overflow checks are on: debug profile).
add_overflows(a, b) ==
    a[1] + b[1] + ((a[2] + b[2]) \div Limb) >= Limb

\* ------------------------------------------------------------------------
\* Inputs
\* ------------------------------------------------------------------------
Scales == { <<1, 2>>, <<1, 1>>, <<3, 2>>, <<2, 1>> }

Positions == { <<U32(0), U32(0)>>, <<U32(10), U32(5)>>,
               <<U32Max, U32(0)>>, <<U32(3), U32Max>> }

Seeds == {0, 1}

Dims == {None} \cup { Some(v) : v \in 1..MaxDim }

\* Contents of a decodable file: an RGBA grid, row-major. Every pixel of one
\* grid has its own RGB; alpha alternates between 0 and 255.
Pixel(seed, x, y) ==
    [r |-> 10 + x, g |-> 20 + y, b |-> 30 + seed,
     a |-> IF (x + y + seed) % 2 = 0 THEN 0 ELSE 255]

Grid(w, h, seed) ==
    [w |-> w, h |-> h,
     px |-> [i \in 1..(w * h) |-> Pixel(seed, (i - 1) % w, (i - 1) \div w)]]

NoImage == [w |-> 0, h |-> 0, px |-> <<>>]

Files == { [exists |-> FALSE, w |-> 0, h |-> 0, seed |-> 0] }
         \cup { [exists |-> TRUE, w |-> w, h |-> h, seed |-> s] :
                    w \in 1..MaxDim, h \in 1..MaxDim, s \in Seeds }

VARIABLES
    pc,             \* position in load_image
    file,           \* what `path` points at
    width, height,  \* Option<u32> arguments
    position,       \* (u32, u32) argument
    stretch,        \* bool argument
    scale,          \* f32 argument, as <<num, den>>
    img,            \* the decoded DynamicImage
    target_width, target_height,
    mode,           \* which branch produced final_img
    final_img,
    pixels,         \* the Vec being returned
    result          \* what the call returned

vars == <<pc, file, width, height, position, stretch, scale, img,
          target_width, target_height, mode, final_img, pixels, result>>

\* ------------------------------------------------------------------------
\* Helpers of load_image
\* ------------------------------------------------------------------------

\* A decoder that substitutes a 1x1 default image for an unreadable file.
open_or_default(f) ==
    IF f.exists THEN [ok |-> TRUE, img |-> Grid(f.w, f.h, f.seed)]
                ELSE [ok |-> TRUE, img |-> Grid(1, 1, 0)]

\* image::open(path): the decoded image, or the ImageError.
open(f) ==
    IF f.exists THEN [ok |-> TRUE, img |-> Grid(f.w, f.h, f.seed)]
                ELSE [ok |-> FALSE, img |-> NoImage]

\* (native as f32 * scale) as u32: the cast truncates toward zero.
scaled(native, sc) == (native * sc[1]) \div sc[2]

\* The factor applied to the explicit dimension as well.
target_dim_scaled(opt, native, sc) ==
    IF is_some(opt) THEN scaled(opt[1], sc) ELSE scaled(native, sc)

\* width.unwrap_or((img_width as f32 * scale) as u32)
target_dim(opt, native, sc) == unwrap_or(opt, scaled(native, sc))

\* The height compared with the native width.
is_native_size_typo(tw, th, w, h) == tw = w /\ th = w

\* target_width == img_width && target_height == img_height
is_native_size(tw, th, w, h) == tw = w /\ th = h

\* f64::round of the non-negative rational n / d (half away from zero).
round_div(n, d) == (2 * n + d) \div (2 * d)

Max(a, b) == IF a >= b THEN a ELSE b

\* The larger of the two ratios (fill instead of fit).
resize_dimensions_fill(w, h, nwidth, nheight) ==
    IF nwidth * h >= nheight * w
        THEN <<Max(round_div(w * nwidth, w), 1), Max(round_div(h * nwidth, w), 1)>>
        ELSE <<Max(round_div(w * nheight, h), 1), Max(round_div(h * nheight, h), 1)>>

\* The bounds returned as they are (no aspect ratio kept).
resize_dimensions_bounds(w, h, nwidth, nheight) ==
    <<Max(nwidth, 1), Max(nheight, 1)>>

\* The size DynamicImage::resize scales to: the native size times the smaller
\* of nwidth/w and nheight/h, each side rounded and at least 1.
resize_dimensions(w, h, nwidth, nheight) ==
    IF nwidth * h <= nheight * w
        THEN <<Max(round_div(w * nwidth, w), 1), Max(round_div(h * nwidth, w), 1)>>
        ELSE <<Max(round_div(w * nheight, h), 1), Max(round_div(h * nheight, h), 1)>>

\* resize_exact that keeps the aspect ratio.
resize_exact_fit(im, nwidth, nheight, s) ==
    LET d == resize_dimensions(im.w, im.h, nwidth, nheight)
    IN  Grid(d[1], d[2], s)

\* img.resize_exact(target_width, target_height, Triangle): a grid of exactly
\* that size; s selects the filtered contents.
resize_exact(im, nwidth, nheight, s) == Grid(nwidth, nheight, s)

\* img.resize(target_width, target_height, Triangle): a grid of the fitted
\* size; s selects the filtered contents.
resize(im, nwidth, nheight, s) ==
    LET d == resize_dimensions(im.w, im.h, nwidth, nheight)
    IN  Grid(d[1], d[2], s)

\* A colour premultiplied by alpha (transparent pixels come out black).
color_premultiplied(p) ==
    [r |-> (p.r * p.a) \div 255, g |-> (p.g * p.a) \div 255,
     b |-> (p.b * p.a) \div 255]

\* Color { r: pixel[0], g: pixel[1], b: pixel[2] }
color_of(p) == [r |-> p.r, g |-> p.g, b |-> p.b]

\* A column-major walk (x outer, y inner).
pixels_iter_columns(im) ==
    [i \in 1..(im.w * im.h) |->
        LET x == (i - 1) \div im.h
            y == (i - 1) % im.h
        IN  <<x, y, im.px[y * im.w + x + 1]>>]

\* final_img.pixels(): (x, y, pixel) for every pixel, y outer, x inner.
pixels_iter(im) ==
    [i \in 1..(im.w * im.h) |->
        LET x == (i - 1) % im.w
            y == (i - 1) \div im.w
        IN  <<x, y, im.px[y * im.w + x + 1]>>]

\* The loop of load_image without overflow checks: every item pushed as
\* (x + position.0, y + position.1, color).
flatten(im, pos) ==
    LET it == pixels_iter(im)
    IN  [i \in 1..Len(it) |->
            <<wrapping_add(U32(it[i][1]), pos[1]),
              wrapping_add(U32(it[i][2]), pos[2]),
              color_of(it[i][3])>>]

\* Some x + position.0 or y + position.1 of the loop overflows u32.
loop_overflows(im, pos) ==
    \E i \in 1..(im.w * im.h) :
        LET it == pixels_iter(im)
        IN  \/ add_overflows(U32(it[i][1]), pos[1])
            \/ add_overflows(U32(it[i][2]), pos[2])

NoResult == [tag |-> "none", points |-> <<>>]

\* ------------------------------------------------------------------------
\* State machine
\* ------------------------------------------------------------------------
Init ==
    /\ pc = "start"
    /\ file \in Files
    /\ width \in Dims
    /\ height \in Dims
    /\ position \in Positions
    /\ stretch \in BOOLEAN
    /\ scale \in Scales
    /\ img = NoImage
    /\ target_width = 0
    /\ target_height = 0
    /\ mode = "none"
    /\ final_img = NoImage
    /\ pixels = <<>>
    /\ result = NoResult

\* let img = image::open(path)?;  (Ok)
Decode ==
    /\ pc = "start"
    /\ open(file).ok
    /\ img' = open(file).img
    /\ pc' = "decoded"
    /\ UNCHANGED <<file, width, height, position, stretch, scale,
                   target_width, target_height, mode, final_img, pixels, result>>

\* let img = image::open(path)?;  (Err: `?` returns it at once)
DecodeError ==
    /\ pc = "start"
    /\ ~open(file).ok
    /\ result' = [tag |-> "Err", points |-> <<>>]
    /\ pc' = "done"
    /\ UNCHANGED <<file, width, height, position, stretch, scale, img,
                   target_width, target_height, mode, final_img, pixels>>

\* let target_width = ...; let target_height = ...;
ResolveTarget ==
    /\ pc = "decoded"
    /\ target_width' = target_dim(width, img.w, scale)
    /\ target_height' = target_dim(height, img.h, scale)
    /\ pc' = "resolved"
    /\ UNCHANGED <<file, width, height, position, stretch, scale, img,
                   mode, final_img, pixels, result>>

\* if target_width == img_width && target_height == img_height { final_img = img; }
FastPath ==
    /\ pc = "resolved"
    /\ is_native_size(target_width, target_height, img.w, img.h)
    /\ final_img' = img
    /\ mode' = "native"
    /\ pc' = "resampled"
    /\ UNCHANGED <<file, width, height, position, stretch, scale, img,
                   target_width, target_height, pixels, result>>

\* else if stretch && width.is_some() && height.is_some() { resize_exact }
Stretch ==
    /\ pc = "resolved"
    /\ ~is_native_size(target_width, target_height, img.w, img.h)
    /\ stretch /\ is_some(width) /\ is_some(height)
    /\ \E s \in Seeds :
          final_img' = resize_exact(img, target_width, target_height, s)
    /\ mode' = "stretch"
    /\ pc' = "resampled"
    /\ UNCHANGED <<file, width, height, position, stretch, scale, img,
                   target_width, target_height, pixels, result>>

\* else { resize }
Fit ==
    /\ pc = "resolved"
    /\ ~is_native_size(target_width, target_height, img.w, img.h)
    /\ ~(stretch /\ is_some(width) /\ is_some(height))
    /\ \E s \in Seeds :
          final_img' = resize(img, target_width, target_height, s)
    /\ mode' = "fit"
    /\ pc' = "resampled"
    /\ UNCHANGED <<file, width, height, position, stretch, scale, img,
                   target_width, target_height, pixels, result>>

\* The for loop and Ok(pixels); with wrapping additions when a sum overflows
\* (overflow checks off).
Flatten ==
    /\ pc = "resampled"
    /\ pixels' = flatten(final_img, position)
    /\ result' = [tag |-> "Ok", points |-> pixels']
    /\ pc' = "done"
    /\ UNCHANGED <<file, width, height, position, stretch, scale, img,
                   target_width, target_height, mode, final_img>>

\* The for loop with overflow checks on: the first overflowing sum panics,
\* the Vec is dropped and nothing is returned.
FlattenPanic ==
    /\ pc = "resampled"
    /\ loop_overflows(final_img, position)
    /\ pixels' = <<>>
    /\ pc' = "panic"
    /\ UNCHANGED <<file, width, height, position, stretch, scale, img,
                   target_width, target_height, mode, final_img, result>>

Next ==
    \/ Decode
    \/ DecodeError
    \/ ResolveTarget
    \/ FastPath
    \/ Stretch
    \/ Fit
    \/ Flatten
    \/ FlattenPanic

Spec == Init /\ [][Next]_vars

TypeOK ==
    /\ pc \in {"start", "decoded", "resolved", "resampled", "done", "panic"}
    /\ mode \in {"none", "native", "stretch", "fit"}
    /\ result.tag \in {"none", "Ok", "Err"}

\* ------------------------------------------------------------------------
\* Properties
\* ------------------------------------------------------------------------
Returned == pc = "done" /\ result.tag = "Ok"

\* The target size has been computed (the decode succeeded).
Resolved == pc \in {"resolved", "resampled", "panic"} \/ Returned

\* final_img has been assigned.
Resampled == pc \in {"resampled", "panic"} \/ Returned

BothExplicit == is_some(width) /\ is_some(height)

\* n * scale truncated toward zero, characterised without division.
TruncProduct(n, sc) ==
    CHOOSE k \in 0..(n * sc[1]) :
        k * sc[2] <= n * sc[1] /\ (k + 1) * sc[2] > n * sc[1]

\* a + b as a mathematical integer: the high limb is not reduced.
MathSum(a, b) ==
    LET lo == a[2] + b[2]
    IN  <<a[1] + b[1] + (lo \div Limb), lo % Limb>>

Abs(n) == IF n >= 0 THEN n ELSE -n

RGB(p) == [r |-> p.r, g |-> p.g, b |-> p.b]

WithAlpha(im, a) ==
    [im EXCEPT !.px = [i \in 1..Len(im.px) |-> [im.px[i] EXCEPT !.a = a]]]

\* C1 (as stated): every successful call returns exactly
\* target_width * target_height points, whichever branch was taken.
C1_CountIsTarget ==
    Returned => Len(result.points) = target_width * target_height

\* C1 (amended): every successful call returns one point per pixel of the
\* grid it produced; that is target_width * target_height points on the fast
\* path and in stretch mode, and in fit mode the fitted grid, whose sides do
\* not exceed the target when both target sides are positive.
C1_CountIsGrid ==
    Returned =>
        /\ Len(result.points) = final_img.w * final_img.h
        /\ mode \in {"native", "stretch"} =>
              Len(result.points) = target_width * target_height
        /\ (mode = "fit" /\ target_width > 0 /\ target_height > 0) =>
              /\ final_img.w <= target_width
              /\ final_img.h <= target_height
              /\ Len(result.points) <= target_width * target_height

C1_Witness ==
    /\ Returned
    /\ mode = "fit"
    /\ target_width > 0 /\ target_height > 0
    /\ Len(result.points) < target_width * target_height

C3_ScaleAppliedToExplicit ==
    (Resolved /\ BothExplicit) =>
        /\ target_width = TruncProduct(width[1], scale)
        /\ target_height = TruncProduct(height[1], scale)

RatioKept ==
    \/ /\ final_img.w = target_width
       /\ Abs(final_img.h * img.w - img.h * final_img.w) <= img.w
    \/ /\ final_img.h = target_height
       /\ Abs(final_img.w * img.h - img.w * final_img.h) <= img.h

FitCase ==
    /\ Resampled
    /\ ~(stretch /\ BothExplicit)
    /\ ~(target_width = img.w /\ target_height = img.h)

C6_FastPathExact ==
    /\ (Resampled /\ target_width = img.w /\ target_height = img.h) =>
          /\ mode = "native"
          /\ final_img = img
    /\ (Returned /\ target_width = img.w /\ target_height = img.h) =>
          /\ Len(result.points) = Len(img.px)
          /\ \A i \in 1..Len(result.points) :
                result.points[i][3] = RGB(img.px[i])

C6_Witness ==
    /\ Returned
    /\ target_width = img.w /\ target_height = img.h
    /\ stretch /\ BothExplicit
    /\ img.w # img.h
    /\ mode = "native"

\* C7: for all inputs the point of grid pixel (x, y) has the coordinate
\* (x + offset_x, y + offset_y).
C7_OffsetLinear ==
    Returned =>
        \A i \in 1..Len(result.points) :
            /\ result.points[i][1]
                  = MathSum(U32((i - 1) % final_img.w), position[1])
            /\ result.points[i][2]
                  = MathSum(U32((i - 1) \div final_img.w), position[2])

\* C8: when decoding fails the call returns the error and no points; the
\* target-size, resample and flatten steps are never reached.
C8_DecodeFailure ==
    ~file.exists =>
        /\ pc \in {"start", "done"}
        /\ pc = "done" => result.tag = "Err"
        /\ result.tag \in {"none", "Err"}
        /\ result.points = <<>>
        /\ pixels = <<>>
        /\ img = NoImage
        /\ mode = "none"
        /\ final_img = NoImage

C8_Witness ==
    /\ ~file.exists
    /\ pc = "done"
    /\ result.tag = "Err"

\* C9: the colour of a point is the r, g, b of its grid pixel for every
\* alpha; grids that differ only in alpha give the same list; transparent
\* pixels are not skipped.
C9_AlphaDropped ==
    Returned =>
        /\ Len(result.points) = Len(final_img.px)
        /\ \A i \in 1..Len(result.points) :
              result.points[i][3] = RGB(final_img.px[i])
        /\ \A a \in {0, 128, 255} :
              flatten(WithAlpha(final_img, a), position) = result.points

C9_Witness ==
    /\ Returned
    /\ \E i \in 1..Len(final_img.px) : final_img.px[i].a = 0
    /\ \E i \in 1..Len(final_img.px) : final_img.px[i].a = 255

\* C10: one point per grid pixel, none skipped or repeated, in row-major
\* order (y outer, x inner); the pre-offset coordinates are pairwise
\* distinct.
C10_RowMajorOnce ==
    Returned =>
        LET w == final_img.w
            h == final_img.h
            it == pixels_iter(final_img)
        IN  /\ Len(result.points) = w * h
            /\ Len(it) = w * h
            /\ \A i \in 1..(w * h) :
                  /\ it[i][1] = (i - 1) % w
                  /\ it[i][2] = (i - 1) \div w
                  /\ result.points[i][1] = wrapping_add(U32(it[i][1]), position[1])
                  /\ result.points[i][2] = wrapping_add(U32(it[i][2]), position[2])
                  /\ result.points[i][3] = RGB(final_img.px[it[i][2] * w + it[i][1] + 1])
            /\ \A i, j \in 1..(w * h) :
                  i # j => <<it[i][1], it[i][2]>> # <<it[j][1], it[j][2]>>
            /\ { <<it[i][1], it[i][2]>> : i \in 1..(w * h) }
                  = (0..(w - 1)) \X (0..(h - 1))

C10_Witness ==
    /\ Returned
    /\ final_img.w >= 2
    /\ final_img.h >= 3
    /\ Len(result.points) = final_img.w * final_img.h

====
